---- MODULE Spec2Model ----
(***************************************************************************)
(* build_demosaic_nb.py: open CP-Math-Demosaic.ipynb, json.load it, look  *)
(* up notebook["cells"], print "Starting with {len(cells)} cell(s)".       *)
(*                                                                         *)
(* The file's content is a sequence of JSON lexemes (tokens); json.load is *)
(* modelled as the recursive-descent scanner of Python's json package over *)
(* that sequence, and the values it builds are tagged with their Python    *)
(* type.  A run is the straight-line sequence of the script's statements;  *)
(* the script may be started again once a run has exited.                  *)
(***************************************************************************)
EXTENDS Integers, Sequences, FiniteSets, TLC

\* ------------------------------------------------------------------------
\* Bounds of the model
\* ------------------------------------------------------------------------

\* Longest "cells" array written into an input file.
MaxCells == 2

\* Number of consecutive runs of the script against the same file.
MaxRuns == 2

\* ------------------------------------------------------------------------
\* Lexemes of the file's text
\* ------------------------------------------------------------------------

Punct(c) == [k |-> "punct", v |-> c]
Str(s) == [k |-> "string", v |-> s]
Num(d) == [k |-> "number", v |-> d]
Name(w) == [k |-> "name", v |-> w]
\* A lexeme no JSON value starts with: 'cells' in single quotes, a bare word,
\* a string cut before its closing quote.
Junk(w) == [k |-> "junk", v |-> w]

LBrace == Punct("{")
RBrace == Punct("}")
LBrack == Punct("[")
RBrack == Punct("]")
Colon == Punct(":")
Comma == Punct(",")

\* ------------------------------------------------------------------------
\* Python values built by json.load
\* ------------------------------------------------------------------------

Unset == [t |-> "unset"]
PyNone == [t |-> "NoneType"]
PyBool(b) == [t |-> "bool", b |-> b]
PyInt(d) == [t |-> "int", repr |-> d]
PyFloat(w) == [t |-> "float", repr |-> w]
PyStr(s) == [t |-> "str", s |-> s]
PyList(items) == [t |-> "list", items |-> items]
PyDict(d) == [t |-> "dict", d |-> d]

\* dict(pairs): a later pair with the same key replaces an earlier one.
LastIndex(pairs, key) ==
    CHOOSE i \in 1..Len(pairs) :
        /\ pairs[i][1] = key
        /\ \A j \in (i+1)..Len(pairs) : pairs[j][1] # key

dict(pairs) ==
    [key \in {pairs[i][1] : i \in 1..Len(pairs)} |-> pairs[LastIndex(pairs, key)][2]]

\* ------------------------------------------------------------------------
\* json.load: the scanner of Python's json package, over lexemes
\* ------------------------------------------------------------------------

Parsed(val, end) == [ok |-> TRUE, val |-> val, end |-> end]
JSONDecodeError(idx) == [ok |-> FALSE, val |-> Unset, end |-> idx]

\* The constants the scanner hands to parse_constant: not JSON, but accepted.
NonStandardConstants == {"NaN", "Infinity", "-Infinity"}

RECURSIVE scan_once(_, _)
RECURSIVE JSONObject(_, _)
RECURSIVE ObjectLoop(_, _, _)
RECURSIVE JSONArray(_, _)
RECURSIVE ArrayLoop(_, _, _)

\* One value starting at text[idx].
scan_once(text, idx) ==
    IF idx > Len(text) THEN JSONDecodeError(idx)
    ELSE LET tok == text[idx] IN
         CASE tok.k = "string" -> Parsed(PyStr(tok.v), idx + 1)
           [] tok = LBrace -> JSONObject(text, idx + 1)
           [] tok = LBrack -> JSONArray(text, idx + 1)
           [] tok = Name("null") -> Parsed(PyNone, idx + 1)
           [] tok = Name("true") -> Parsed(PyBool(TRUE), idx + 1)
           [] tok = Name("false") -> Parsed(PyBool(FALSE), idx + 1)
           [] tok.k = "number" -> Parsed(PyInt(tok.v), idx + 1)
           [] tok.k = "name" /\ tok.v \in NonStandardConstants ->
                  Parsed(PyFloat(tok.v), idx + 1)
           [] OTHER -> JSONDecodeError(idx)

\* After "{": "}" or a property name must follow.
JSONObject(text, idx) ==
    IF idx > Len(text) THEN JSONDecodeError(idx)
    ELSE IF text[idx] = RBrace THEN Parsed(PyDict(dict(<< >>)), idx + 1)
    ELSE IF text[idx].k # "string" THEN JSONDecodeError(idx)
    ELSE ObjectLoop(text, idx, << >>)

\* text[idx] is a property name; pairs are the members read so far.
ObjectLoop(text, idx, pairs) ==
    IF idx + 1 > Len(text) \/ text[idx + 1] # Colon THEN JSONDecodeError(idx + 1)
    ELSE LET r == scan_once(text, idx + 2) IN
         IF ~r.ok THEN r
         ELSE LET more == Append(pairs, <<text[idx].v, r.val>>)
                  end == r.end
              IN IF end > Len(text) THEN JSONDecodeError(end)
                 ELSE IF text[end] = RBrace THEN Parsed(PyDict(dict(more)), end + 1)
                 ELSE IF text[end] # Comma THEN JSONDecodeError(end)
                 ELSE IF end + 1 > Len(text) \/ text[end + 1].k # "string"
                      THEN JSONDecodeError(end + 1)
                 ELSE ObjectLoop(text, end + 1, more)

\* After "[": "]" or a value must follow.
JSONArray(text, idx) ==
    IF idx <= Len(text) /\ text[idx] = RBrack THEN Parsed(PyList(<< >>), idx + 1)
    ELSE ArrayLoop(text, idx, << >>)

\* A value is expected at text[idx]; values are the elements read so far.
ArrayLoop(text, idx, values) ==
    LET r == scan_once(text, idx) IN
    IF ~r.ok THEN r
    ELSE LET more == Append(values, r.val)
             end == r.end
         IN IF end > Len(text) THEN JSONDecodeError(end)
            ELSE IF text[end] = RBrack THEN Parsed(PyList(more), end + 1)
            ELSE IF text[end] # Comma THEN JSONDecodeError(end)
            ELSE ArrayLoop(text, end + 1, more)

\* JSONDecoder.raw_decode in place of decode: text after the value is ignored.
raw_decode(text) == scan_once(text, 1)

\* JSONDecoder.decode: one value, then nothing ("Extra data" otherwise).
json_load(text) ==
    LET r == scan_once(text, 1) IN
    IF r.ok /\ r.end # Len(text) + 1 THEN JSONDecodeError(r.end) ELSE r

\* ------------------------------------------------------------------------
\* notebook["cells"] and len(cells)
\* ------------------------------------------------------------------------

Returned(val) == [exc |-> "", val |-> val]
Raised(exc) == [exc |-> exc, val |-> Unset]

\* obj.get(key, []) in place of obj[key]: a missing key yields an empty list.
dict_get(obj, key) ==
    IF obj.t = "dict"
    THEN IF key \in DOMAIN obj.d THEN Returned(obj.d[key]) ELSE Returned(PyList(<< >>))
    ELSE Raised("TypeError")

\* obj[key] with a str key: only a dict has str keys.
getitem(obj, key) ==
    IF obj.t = "dict"
    THEN IF key \in DOMAIN obj.d THEN Returned(obj.d[key]) ELSE Raised("KeyError")
    ELSE Raised("TypeError")

\* len(obj or []) in place of len(obj): None counts as empty.
len_or_empty(obj) ==
    CASE obj.t = "list" -> [exc |-> "", n |-> Len(obj.items)]
      [] obj.t = "str" -> [exc |-> "", n |-> Len(obj.s)]
      [] obj.t = "dict" -> [exc |-> "", n |-> Cardinality(DOMAIN obj.d)]
      [] obj.t = "NoneType" -> [exc |-> "", n |-> 0]
      [] OTHER -> [exc |-> "TypeError", n |-> 0]

\* len(obj): defined for list, str and dict, a TypeError for the rest.
py_len(obj) ==
    CASE obj.t = "list" -> [exc |-> "", n |-> Len(obj.items)]
      [] obj.t = "str" -> [exc |-> "", n |-> Len(obj.s)]
      [] obj.t = "dict" -> [exc |-> "", n |-> Cardinality(DOMAIN obj.d)]
      [] OTHER -> [exc |-> "TypeError", n |-> 0]

\* The message without its parentheses.
fstring_plural(n) == "Starting with " \o ToString(n) \o " cells"

\* f"Starting with {n} cell(s)"
fstring(n) == "Starting with " \o ToString(n) \o " cell(s)"

\* ------------------------------------------------------------------------
\* The input file: what CP-Math-Demosaic.ipynb may hold when a run starts
\* ------------------------------------------------------------------------

RECURSIVE Join(_)
\* The texts of a sequence, separated by commas.
Join(texts) ==
    IF texts = << >> THEN << >>
    ELSE IF Len(texts) = 1 THEN texts[1]
    ELSE texts[1] \o <<Comma>> \o Join(Tail(texts))

Array(elements) == <<LBrack>> \o Join(elements) \o <<RBrack>>
Object(members) == <<LBrace>> \o Join(members) \o <<RBrace>>
Member(key, value) == <<Str(key), Colon>> \o value

\* Elements of a "cells" array: the script never looks inside them.
ElementTexts ==
    { <<Num("1")>>, Object(<< >>), <<Str("code")>>, <<Name("NaN")>> }

\* Arrays of every length up to MaxCells, and every pair of elements.
ArrayTexts ==
    { Array([i \in 1..n |-> e]) : e \in ElementTexts, n \in 0..MaxCells }
    \cup { Array(<<e1, e2>>) : e1 \in ElementTexts, e2 \in ElementTexts }

ScalarTexts ==
    { <<Name("null")>>, <<Name("true")>>, <<Num("5")>>, <<Str("abc")>>, <<Str("")>>,
      <<Name("NaN")>> }

ObjectTexts ==
    { Object(<< >>),
      Object(<<Member("a", <<Num("1")>>)>>),
      Object(<<Member("a", <<Num("1")>>), Member("b", <<Num("1")>>)>>),
      Object(<<Member("a", <<Num("1")>>), Member("a", <<Num("2")>>)>>) }

CellsValueTexts == ArrayTexts \cup ScalarTexts \cup ObjectTexts

\* Values of a "cells" member that stands beside another member, or is
\* written twice in one object.
DuplicateTexts ==
    { Array(<< >>), Array(<< <<Num("1")>> >>), <<Str("ab")>>, <<Name("null")>> }

OtherMember == Member("nbformat", <<Num("4")>>)

\* Complete documents: notebooks, objects without "cells", and documents whose
\* top level is not an object.
DocumentTexts ==
    { Object(<< >>), Object(<<OtherMember>>) }
    \cup { Object(<<Member("cells", v)>>) : v \in CellsValueTexts }
    \cup { Object(<<OtherMember, Member("cells", v)>>) : v \in DuplicateTexts }
    \cup { Object(<<Member("cells", v), OtherMember>>) : v \in DuplicateTexts }
    \cup { Object(<<Member("cells", v), Member("cells", w)>>) :
             v \in DuplicateTexts, w \in DuplicateTexts }
    \cup { Array(<< >>), Array(<< <<Str("cells")>> >>), <<Str("cells")>>,
           <<Num("1")>>, <<Name("null")>>, <<Name("true")>>, <<Name("NaN")>> }

\* A document cut short (down to the empty file), with one lexeme lost, or
\* followed by text that is not JSON.
Truncated(text) == { SubSeq(text, 1, n) : n \in 0..Len(text) }
Dropped(text) ==
    { SubSeq(text, 1, i - 1) \o SubSeq(text, i + 1, Len(text)) : i \in 1..Len(text) }
Trailing(text) == { text \o <<Junk("x")>>, <<Junk("x")>> \o text }

FileTexts ==
    UNION { Truncated(t) \cup Dropped(t) \cup Trailing(t) : t \in DocumentTexts }

\* ------------------------------------------------------------------------
\* JSON texts, by the grammar of RFC 8259 (used to state the properties)
\* ------------------------------------------------------------------------

\* A lexeme that is a value by itself; constants are the names allowed beyond
\* null, true and false.
IsScalar(tok, constants) ==
    \/ tok.k \in {"string", "number"}
    \/ tok.k = "name" /\ tok.v \in {"null", "true", "false"} \cup constants

RECURSIVE IsValue(_, _)
RECURSIVE IsElements(_, _)
RECURSIVE IsMembers(_, _)

\* value = scalar / "[" [ elements ] "]" / "{" [ members ] "}"
IsValue(s, constants) ==
    /\ Len(s) >= 1
    /\ \/ Len(s) = 1 /\ IsScalar(s[1], constants)
       \/ /\ Len(s) >= 2
          /\ s[1] = LBrack
          /\ s[Len(s)] = RBrack
          /\ Len(s) = 2 \/ IsElements(SubSeq(s, 2, Len(s) - 1), constants)
       \/ /\ Len(s) >= 2
          /\ s[1] = LBrace
          /\ s[Len(s)] = RBrace
          /\ Len(s) = 2 \/ IsMembers(SubSeq(s, 2, Len(s) - 1), constants)

\* elements = value *( "," value )
IsElements(s, constants) ==
    \/ IsValue(s, constants)
    \/ \E i \in 2..(Len(s) - 1) :
          /\ s[i] = Comma
          /\ IsValue(SubSeq(s, 1, i - 1), constants)
          /\ IsElements(SubSeq(s, i + 1, Len(s)), constants)

\* member = string ":" value
IsMember(s, constants) ==
    /\ Len(s) >= 3
    /\ s[1].k = "string"
    /\ s[2] = Colon
    /\ IsValue(SubSeq(s, 3, Len(s)), constants)

\* members = member *( "," member )
IsMembers(s, constants) ==
    \/ IsMember(s, constants)
    \/ \E i \in 4..(Len(s) - 1) :
          /\ s[i] = Comma
          /\ IsMember(SubSeq(s, 1, i - 1), constants)
          /\ IsMembers(SubSeq(s, i + 1, Len(s)), constants)

\* Valid JSON text.
IsValidJSON(s) == IsValue(s, {})

\* JSON text in which NaN, Infinity and -Infinity may also stand as values.
IsJSONWithConstants(s) == IsValue(s, {"NaN", "Infinity", "-Infinity"})

\* How many brackets and braces are open just before s[i].
Depth(s, i) ==
    Cardinality({ j \in 1..(i - 1) : s[j] \in {LBrack, LBrace} })
    - Cardinality({ j \in 1..(i - 1) : s[j] \in {RBrack, RBrace} })

\* The last lexeme of the value that starts at s[p].
ValueEnd(s, p) ==
    IF s[p] \in {LBrack, LBrace}
    THEN CHOOSE e \in (p + 1)..Len(s) :
            /\ s[e] \in {RBrack, RBrace}
            /\ Depth(s, e) = Depth(s, p) + 1
            /\ \A j \in (p + 1)..(e - 1) :
                  ~(s[j] \in {RBrack, RBrace} /\ Depth(s, j) = Depth(s, p) + 1)
    ELSE p

TopIsObject(s) == Len(s) >= 1 /\ s[1] = LBrace

\* Where the top-level object names a member "cells".
CellsKeys(s) ==
    { i \in 1..(Len(s) - 1) :
        /\ Depth(s, i) = 1
        /\ s[i] = Str("cells")
        /\ s[i + 1] = Colon }

HasCellsField(s) == TopIsObject(s) /\ CellsKeys(s) # {}

\* Where the value of the "cells" field starts (of the last one, when the
\* object names "cells" more than once).
CellsValueAt(s) == 2 + CHOOSE i \in CellsKeys(s) : \A j \in CellsKeys(s) : j <= i

\* The type of the "cells" field's value.
CellsKind(s) ==
    LET tok == s[CellsValueAt(s)] IN
    CASE tok = LBrack -> "array"
      [] tok = LBrace -> "object"
      [] tok = Name("null") -> "null"
      [] tok \in {Name("true"), Name("false")} -> "boolean"
      [] OTHER -> tok.k

\* Number of elements of the array that starts at s[p].
ArrayLength(s, p) ==
    LET e == ValueEnd(s, p) IN
    IF e = p + 1 THEN 0
    ELSE 1 + Cardinality({ i \in (p + 1)..(e - 1) :
                             s[i] = Comma /\ Depth(s, i) = Depth(s, p) + 1 })

\* The distinct names of the object that starts at s[p].
ObjectNames(s, p) ==
    { s[i].v : i \in { j \in (p + 1)..(ValueEnd(s, p) - 1) :
                         /\ Depth(s, j) = Depth(s, p) + 1
                         /\ s[j].k = "string"
                         /\ s[j + 1] = Colon } }

\* The line a successful run writes for a count of n.
SuccessLine(n) == "Starting with " \o ToString(n) \o " cell(s)"

\* ------------------------------------------------------------------------
\* State
\* ------------------------------------------------------------------------

VARIABLES
    fileExists,   \* CP-Math-Demosaic.ipynb is in the working directory, readable
    fileText,     \* its content
    pc,           \* the statement the process executes next
    handle,       \* f: "none", "open" or "closed"
    notebook,     \* the script's variable notebook
    cells,        \* the script's variable cells
    stdout,       \* lines written to standard output by this process
    exitStatus,   \* the process's exit status, -1 while it runs
    err,          \* the uncaught exception that ended the process, "" if none
    steps,        \* statements this process has executed, in order
    run,          \* which run against the file this process is
    history       \* what the earlier runs wrote and how they exited

vars == <<fileExists, fileText, pc, handle, notebook, cells, stdout, exitStatus,
          err, steps, run, history>>

fileVars == <<fileExists, fileText>>

\* A process about to execute its first statement.
Started ==
    /\ pc = "open"
    /\ handle = "none"
    /\ notebook = Unset
    /\ cells = Unset
    /\ stdout = << >>
    /\ exitStatus = -1
    /\ err = ""
    /\ steps = << >>

Init ==
    /\ \/ fileExists = FALSE /\ fileText = << >>
       \/ fileExists = TRUE /\ fileText \in FileTexts
    /\ Started
    /\ run = 1
    /\ history = << >>

\* ------------------------------------------------------------------------
\* The script's statements
\* ------------------------------------------------------------------------

\* The exception is caught and the script starts over.
RaiseAndRetry(exc) ==
    /\ pc' = "open"
    /\ exitStatus' = exitStatus
    /\ err' = exc

\* An uncaught exception: traceback on stderr, exit status 1.
Raise(exc) ==
    /\ pc' = "exit"
    /\ exitStatus' = 1
    /\ err' = exc

\* A missing file is caught and replaced by an empty notebook.
OpenOrEmptyNotebook ==
    /\ pc = "open"
    /\ steps' = Append(steps, "open")
    /\ IF fileExists
       THEN /\ handle' = "open"
            /\ pc' = "load"
            /\ UNCHANGED notebook
       ELSE /\ notebook' = PyDict(dict(<< <<"cells", PyList(<< >>)>> >>))
            /\ pc' = "lookup"
            /\ UNCHANGED handle
    /\ UNCHANGED <<fileVars, cells, stdout, exitStatus, err, run, history>>

\* Mode 'w' in place of 'r': the file is created or truncated when opened.
OpenTruncating ==
    /\ pc = "open"
    /\ steps' = Append(steps, "open")
    /\ fileExists' = TRUE
    /\ fileText' = << >>
    /\ handle' = "open"
    /\ pc' = "load"
    /\ UNCHANGED <<notebook, cells, stdout, exitStatus, err, run, history>>

\* with open('CP-Math-Demosaic.ipynb', 'r') as f:
Open ==
    /\ pc = "open"
    /\ steps' = Append(steps, "open")
    /\ IF fileExists
       THEN /\ handle' = "open"
            /\ pc' = "load"
            /\ UNCHANGED <<exitStatus, err>>
       ELSE /\ Raise("FileNotFoundError")
            /\ UNCHANGED handle
    /\ UNCHANGED <<fileVars, notebook, cells, stdout, run, history>>

\* f = open(...); json.load(f); f.close() in place of the with block: an
\* exception in json.load leaves f open.
LoadWithoutWith ==
    /\ pc = "load"
    /\ steps' = Append(steps, "parse")
    /\ LET r == json_load(fileText) IN
       IF r.ok
       THEN /\ notebook' = r.val
            /\ handle' = "closed"
            /\ pc' = "lookup"
            /\ UNCHANGED <<exitStatus, err>>
       ELSE /\ Raise("JSONDecodeError")
            /\ UNCHANGED <<notebook, handle>>
    /\ UNCHANGED <<fileVars, cells, stdout, run, history>>

\*     notebook = json.load(f)
\* The with block closes f when it is left, by return or by exception.
Load ==
    /\ pc = "load"
    /\ steps' = Append(steps, "parse")
    /\ handle' = "closed"
    /\ LET r == json_load(fileText) IN
       IF r.ok
       THEN /\ notebook' = r.val
            /\ pc' = "lookup"
            /\ UNCHANGED <<exitStatus, err>>
       ELSE /\ Raise("JSONDecodeError")
            /\ UNCHANGED notebook
    /\ UNCHANGED <<fileVars, cells, stdout, run, history>>

\* cells = notebook["cells"]
Lookup ==
    /\ pc = "lookup"
    /\ steps' = Append(steps, "lookup")
    /\ LET r == getitem(notebook, "cells") IN
       IF r.exc = ""
       THEN /\ cells' = r.val
            /\ pc' = "print"
            /\ UNCHANGED <<exitStatus, err>>
       ELSE /\ Raise(r.exc)
            /\ UNCHANGED cells
    /\ UNCHANGED <<fileVars, handle, notebook, stdout, run, history>>

\* After printing, the notebook is written back with one more cell.
PrintCountAndSave ==
    /\ pc = "print"
    /\ steps' = Append(steps, "print")
    /\ LET r == py_len(cells) IN
       IF r.exc = ""
       THEN /\ stdout' = Append(stdout, fstring(r.n))
            /\ fileText' = Object(<<Member("cells",
                               Array([i \in 1..(r.n + 1) |-> Object(<< >>)]))>>)
            /\ pc' = "exit"
            /\ exitStatus' = 0
            /\ UNCHANGED err
       ELSE /\ Raise(r.exc)
            /\ UNCHANGED <<stdout, fileText>>
    /\ UNCHANGED <<fileExists, handle, notebook, cells, run, history>>

\* The message is printed in two parts, the first before len(cells) is taken.
PrintBannerFirst ==
    /\ pc = "print"
    /\ steps' = Append(steps, "print")
    /\ LET r == py_len(cells) IN
       IF r.exc = ""
       THEN /\ stdout' = Append(stdout, fstring(r.n))
            /\ pc' = "exit"
            /\ exitStatus' = 0
            /\ UNCHANGED err
       ELSE /\ Raise(r.exc)
            /\ stdout' = Append(stdout, "Starting with ")
    /\ UNCHANGED <<fileVars, handle, notebook, cells, run, history>>

\* print(f"Starting with {len(cells)} cell(s)"), the script's last statement
PrintCount ==
    /\ pc = "print"
    /\ steps' = Append(steps, "print")
    /\ LET r == py_len(cells) IN
       IF r.exc = ""
       THEN /\ stdout' = Append(stdout, fstring(r.n))
            /\ pc' = "exit"
            /\ exitStatus' = 0
            /\ UNCHANGED err
       ELSE /\ Raise(r.exc)
            /\ UNCHANGED stdout
    /\ UNCHANGED <<fileVars, handle, notebook, cells, run, history>>

\* What a finished run leaves for its caller to observe.
Outcome == [stdout |-> stdout, exitStatus |-> exitStatus, err |-> err]

\* The script is started again, as a new process, after the previous run exited.
Rerun ==
    /\ pc = "exit"
    /\ run < MaxRuns
    /\ run' = run + 1
    /\ history' = Append(history, Outcome)
    /\ pc' = "open"
    /\ handle' = "none"
    /\ notebook' = Unset
    /\ cells' = Unset
    /\ stdout' = << >>
    /\ exitStatus' = -1
    /\ err' = ""
    /\ steps' = << >>
    /\ UNCHANGED fileVars

Step == Open \/ Load \/ Lookup \/ PrintCount

Next == Step \/ Rerun

Spec == Init /\ [][Next]_vars

\* A started process runs to its end: single-threaded, no suspension points.
FairSpec == Spec /\ WF_vars(Step)

\* ------------------------------------------------------------------------
\* Properties
\* ------------------------------------------------------------------------

Exited == pc = "exit"

AllSteps == <<"open", "parse", "lookup", "print">>

IsPrefix(s, t) == Len(s) <= Len(t) /\ s = SubSeq(t, 1, Len(s))

\* The file holds valid JSON whose top level is an object with a "cells" field.
ValidWithCells == fileExists /\ IsValidJSON(fileText) /\ HasCellsField(fileText)

\* C1: a run on a file that exists and holds valid JSON, an object whose
\* "cells" field is an array of N elements of any kind, writes exactly the
\* one line "Starting with N cell(s)" and exits with status 0.
C1_ArrayPrintsItsLength ==
    (Exited /\ ValidWithCells /\ CellsKind(fileText) = "array") =>
        /\ stdout = <<SuccessLine(ArrayLength(fileText, CellsValueAt(fileText)))>>
        /\ exitStatus = 0
        /\ err = ""

C1_Witness ==
    /\ Exited
    /\ ValidWithCells
    /\ CellsKind(fileText) = "array"
    /\ ArrayLength(fileText, CellsValueAt(fileText)) = 2
    /\ stdout = <<"Starting with 2 cell(s)">>

\* C2: when the file does not exist the run ends at the open statement with
\* FileNotFoundError and a nonzero status; nothing is written to standard
\* output and the parse, lookup and print statements are never reached.
C2_MissingFileFailsAtOpen ==
    ~fileExists =>
        /\ pc \in {"open", "exit"}
        /\ stdout = << >>
        /\ notebook = Unset
        /\ cells = Unset
        /\ Exited => /\ exitStatus = 1
                     /\ err = "FileNotFoundError"
                     /\ steps = <<"open">>

C2_Witness == ~fileExists /\ Exited /\ exitStatus = 1

\* C3 as claimed: when the file exists and its content is not valid JSON text,
\* the run ends at the parse statement with a nonzero status, before the
\* lookup and the print.
C3_InvalidJSONFailsAtParse ==
    (Exited /\ fileExists /\ ~IsValidJSON(fileText)) =>
        /\ exitStatus = 1
        /\ err = "JSONDecodeError"
        /\ steps = <<"open", "parse">>

\* C3 as amended: when the file exists and its content is not JSON text even
\* with NaN, Infinity and -Infinity allowed as values, the run ends at the
\* parse statement with JSONDecodeError and a nonzero status; the lookup and
\* the print are never reached and nothing is written.
C3_UnparsableFailsAtParse ==
    (fileExists /\ ~IsJSONWithConstants(fileText)) =>
        /\ pc \in {"open", "load", "exit"}
        /\ stdout = << >>
        /\ notebook = Unset
        /\ Exited => /\ exitStatus = 1
                     /\ err = "JSONDecodeError"
                     /\ steps = <<"open", "parse">>

\* A document cut short inside its "cells" array.
C3_Witness ==
    /\ Exited
    /\ fileExists
    /\ fileText = <<LBrace, Str("cells"), Colon, LBrack, Num("1")>>
    /\ err = "JSONDecodeError"

\* C4: when the file holds valid JSON without a top-level "cells" field, the
\* lookup raises an uncaught error (KeyError when the top level is an object),
\* the run exits with a nonzero status and nothing is printed.
C4_MissingCellsFailsAtLookup ==
    (fileExists /\ IsValidJSON(fileText) /\ ~HasCellsField(fileText)) =>
        /\ pc # "print"
        /\ stdout = << >>
        /\ cells = Unset
        /\ Exited => /\ exitStatus = 1
                     /\ steps = <<"open", "parse", "lookup">>
                     /\ err = IF TopIsObject(fileText) THEN "KeyError" ELSE "TypeError"

C4_Witness ==
    /\ Exited
    /\ fileExists
    /\ fileText = <<LBrace, RBrace>>
    /\ err = "KeyError"
    /\ exitStatus = 1

\* The file holds valid JSON of the wrong type: the top level is not an
\* object, or "cells" is there and is not an array.
WrongType ==
    /\ fileExists
    /\ IsValidJSON(fileText)
    /\ \/ ~TopIsObject(fileText)
       \/ HasCellsField(fileText) /\ CellsKind(fileText) # "array"

\* C5 as claimed: a document of the wrong type ends the run in an uncaught
\* error with a nonzero status, and the success line is not printed.
C5_WrongTypeFails ==
    (Exited /\ WrongType) =>
        /\ exitStatus = 1
        /\ err # ""
        /\ stdout = << >>

\* C5 as amended: the run ends in an uncaught TypeError with a nonzero status
\* and prints nothing when the top level is not an object or "cells" is a
\* number, a boolean or null; when "cells" is a string or an object the run
\* succeeds and prints the string's length or the object's number of distinct
\* names as the count.
C5_WrongTypeFailsUnlessSized ==
    (Exited /\ WrongType) =>
        IF TopIsObject(fileText) /\ CellsKind(fileText) \in {"string", "object"}
        THEN /\ exitStatus = 0
             /\ err = ""
             /\ stdout =
                  <<SuccessLine(
                      IF CellsKind(fileText) = "string"
                      THEN Len(fileText[CellsValueAt(fileText)].v)
                      ELSE Cardinality(ObjectNames(fileText, CellsValueAt(fileText))))>>
        ELSE /\ exitStatus = 1
             /\ err = "TypeError"
             /\ stdout = << >>
             /\ steps = IF TopIsObject(fileText)
                        THEN AllSteps
                        ELSE <<"open", "parse", "lookup">>

\* "cells" is null: len(None) raises.
C5_Witness ==
    /\ Exited
    /\ WrongType
    /\ TopIsObject(fileText)
    /\ CellsKind(fileText) = "null"
    /\ err = "TypeError"
    /\ steps = AllSteps

\* C6: no statement changes the file, and within a run the parsed notebook
\* and the cells taken from it stay as they were read.
C6_ReadOnly ==
    [][ /\ fileExists' = fileExists
        /\ fileText' = fileText
        /\ (run' = run /\ notebook # Unset) => notebook' = notebook
        /\ (run' = run /\ cells # Unset) => cells' = cells
        /\ (run' = run /\ cells' # Unset) => cells' = notebook'.d["cells"] ]_vars

\* A second run has ended on the file the first run succeeded on.
C6_Witness ==
    /\ Exited
    /\ run = 2
    /\ exitStatus = 0
    /\ cells = notebook.d["cells"]
    /\ history[1].exitStatus = 0

\* C7: consecutive runs against the same file end alike: every earlier run
\* wrote the same standard output and exited the same way as the latest one.
C7_RunsAgree ==
    /\ \A i, j \in 1..Len(history) : history[i] = history[j]
    /\ Exited =>
          \A i \in 1..Len(history) :
              /\ history[i].stdout = stdout
              /\ history[i].exitStatus = exitStatus
              /\ history[i].err = err

C7_Witness ==
    /\ Exited
    /\ run = 2
    /\ history[1].stdout = <<"Starting with 1 cell(s)">>
    /\ stdout = <<"Starting with 1 cell(s)">>

\* C8: the handle is open only while json.load runs: it is closed when the
\* lookup and the print execute and in every final state, and it was never
\* acquired when open failed.
C8_HandleReleased ==
    /\ handle = "open" <=> pc = "load"
    /\ pc \in {"lookup", "print"} => handle = "closed"
    /\ pc = "open" => handle = "none"
    /\ Exited => handle = IF fileExists THEN "closed" ELSE "none"

\* A run ended by a parse error.
C8_Witness == Exited /\ err = "JSONDecodeError" /\ handle = "closed"

\* C9: a run exits with status 0 exactly when it has written the one line
\* "Starting with N cell(s)"; a run that fails has written nothing, and no
\* run writes more than one line.
C9_ExitZeroIffLine ==
    /\ Len(stdout) <= 1
    /\ ~Exited => stdout = << >>
    /\ Exited =>
          /\ exitStatus \in {0, 1}
          /\ exitStatus = 0 <=>
                \E n \in 0..Len(fileText) : stdout = <<SuccessLine(n)>>
          /\ exitStatus = 1 => stdout = << >> /\ err # ""

\* A run that failed at the last statement, taking the length.
C9_Witness ==
    /\ Exited
    /\ steps = AllSteps
    /\ exitStatus = 1
    /\ stdout = << >>

\* C10: the statements of a run execute in the order open, parse, lookup,
\* print, each at most once; only a run that executed all four succeeds; a
\* failure ends the run at the statement that raised; and every run ends.
C10_StraightLineAndEnds ==
    /\ [](IsPrefix(steps, AllSteps))
    /\ [](Exited => (exitStatus = 0 => steps = AllSteps) /\ (exitStatus = 1 <=> err # ""))
    /\ [][ /\ (run' = run /\ err' # "") => (pc' = "exit" /\ exitStatus' = 1)
           /\ (run' = run /\ steps' # steps) => (~Exited /\ steps' = Append(steps, AllSteps[Len(steps) + 1])) ]_vars
    /\ (~Exited) ~> Exited

\* A run that stopped at the lookup.
C10_Witness ==
    /\ Exited
    /\ steps = <<"open", "parse", "lookup">>
    /\ exitStatus = 1

====
